---- MODULE Spec2Model ----
(***************************************************************************)
(* The knowledge-graph extraction script of src/main.py: the client        *)
(* call_gemini, the four-step pipeline that runs when a file is uploaded   *)
(* and the button is pressed, and the projection                           *)
(* format_for_st_link_analysis.                                            *)
(*                                                                         *)
(* Python values are modelled as follows.  A dict is a function whose      *)
(* DOMAIN is its set of keys (a missing key is a key outside the DOMAIN).  *)
(* A decoded JSON value is tagged: [t |-> "null"], [t |-> "list", v |-> s] *)
(* or [t |-> "obj", v |-> d]; json.loads("null") is Python's None, so the  *)
(* tag "null" is also the None that call_gemini returns on failure.        *)
(* None in a string-valued slot is the string None below.                  *)
(***************************************************************************)
EXTENDS Integers, Sequences, FiniteSets, TLC

VARIABLES
    API_KEY,          \* the secret read at line 6
    pc,               \* position of the script run
    nodes_list,       \* result of the step-1 call
    idx,              \* position of the step-2 loop in nodes_list (1-based)
    final_nodes,      \* list accumulated by step 2
    final_edges,      \* result of the step-3 call
    llm_json_output,  \* {"nodes": final_nodes, "edges": final_edges}
    metrics,          \* the st.metric values shown by step 4
    elements,         \* the graph returned by format_for_st_link_analysis
    msgs,             \* st.error / st.warning / st.success, in order
    calls,            \* the requests.post calls of call_gemini, in order
    response,         \* what requests.post gave a call_gemini taken on its own
    returned          \* what that call_gemini returned

vars == <<API_KEY, pc, nodes_list, idx, final_nodes, final_edges,
          llm_json_output, metrics, elements, msgs, calls, response,
          returned>>

----------------------------------------------------------------------------
(* Bounds of the model *)

\* longest entity list the step-1 oracle returns
MaxEntities == 2
\* longest relationship list the step-3 oracle returns
MaxRelationships == 2
\* longest "nodes" list given to the projection alone
MaxNodes == 3
\* longest "edges" list given to the projection alone
MaxEdges == 2

----------------------------------------------------------------------------
(* Python values *)

None == "<None>"
NoDict == [k \in {} |-> None]

JNull == [t |-> "null"]
JList(s) == [t |-> "list", v |-> s]
JObj(d) == [t |-> "obj", v |-> d]

IsList(j) == j.t = "list"
IsObj(j) == j.t = "obj"

\* dict.get(key, default)
Get(d, key, default) == IF key \in DOMAIN d THEN d[key] ELSE default

\* d[key] = value
SetItem(d, key, value) == (key :> value) @@ d

\* truth value of a str-or-None
TruthyStr(s) == s # None /\ s # ""

\* truth value of a decoded JSON value
TruthyJ(j) ==
    CASE j.t = "null" -> FALSE
      [] j.t = "list" -> Len(j.v) > 0
      [] j.t = "obj" -> DOMAIN j.v # {}

\* str.upper() on the strings of the model
upper(s) ==
    CASE s = "person" -> "PERSON"
      [] s = "Person" -> "PERSON"
      [] s = "organization" -> "ORGANIZATION"
      [] s = "met" -> "MET"
      [] s = "works_at" -> "WORKS_AT"
      [] OTHER -> s

SeqsUpTo(S, n) == UNION {[1..k -> S] : k \in 0..n}

----------------------------------------------------------------------------
(* call_gemini *)

\* The text of the first candidate is a sequence of tokens: the fence tag
\* of line 30 (7 characters), the fence of line 32 (3 characters), white space,
\* one JSON document with its decoded value, or text that is not JSON.
FenceTag == [c |-> "fence_json"]
Fence == [c |-> "fence"]
Ws == [c |-> "ws"]
Doc(j) == [c |-> "json", v |-> j]
Junk == [c |-> "junk"]

\* as StripFences, without the closing fence test of line 32
StripFences_TagOnly(text) ==
    IF Len(text) > 0 /\ Head(text) = FenceTag THEN Tail(text) ELSE text

\* lines 30-33
StripFences(text) ==
    LET a == IF Len(text) > 0 /\ Head(text) = FenceTag THEN Tail(text) ELSE text
    IN  IF Len(a) > 0 /\ a[Len(a)] = Fence THEN SubSeq(a, 1, Len(a) - 1) ELSE a

RECURSIVE LStrip(_)
LStrip(text) ==
    IF Len(text) > 0 /\ Head(text) = Ws THEN LStrip(Tail(text)) ELSE text

RECURSIVE RStrip(_)
RStrip(text) ==
    IF Len(text) > 0 /\ text[Len(text)] = Ws
    THEN RStrip(SubSeq(text, 1, Len(text) - 1)) ELSE text

\* json.loads accepts one document with white space around it
Decodable(text) ==
    LET core == RStrip(LStrip(text))
    IN  Len(core) = 1 /\ core[1].c = "json"

loads(text) == RStrip(LStrip(text))[1].v

\* What requests.post and the oracle do with a request
Response(sent, status, path, text) ==
    [sent |-> sent, status |-> status, path |-> path, text |-> text]

TransportFailure == Response(FALSE, 0, FALSE, << >>)
ApiFailure == Response(TRUE, 500, FALSE, << >>)
ShapeFailure == Response(TRUE, 200, FALSE, << >>)
DecodeFailure == Response(TRUE, 200, TRUE, <<Junk>>)
Plain(j) == Response(TRUE, 200, TRUE, <<Doc(j)>>)
Fenced(j) == Response(TRUE, 200, TRUE, <<FenceTag, Ws, Doc(j), Ws, Fence>>)

Failures == {TransportFailure, ApiFailure, ShapeFailure, DecodeFailure}

Shown(level, about) == [level |-> level, about |-> about]

\* lines 12-43: the pair (parsed, error), and what the call shows to the user
Returned(parsed, error, shown) ==
    [parsed |-> parsed, error |-> error, shown |-> shown]

\* as call_gemini, without the status test of line 23
call_gemini_NoStatusTest(resp) ==
    IF ~resp.sent
    THEN Returned(JNull, "Error: Network request failed.", << >>)
    ELSE IF ~resp.path
    THEN Returned(JNull, "Error: Unexpected API response format.", << >>)
    ELSE IF ~Decodable(StripFences(resp.text))
    THEN Returned(JNull, "Error: Failed to decode JSON response from API.",
                  <<Shown("error", "Failed to decode JSON")>>)
    ELSE Returned(loads(StripFences(resp.text)), None, << >>)

call_gemini(resp) ==
    IF ~resp.sent
    THEN Returned(JNull, "Error: Network request failed.", << >>)
    ELSE IF resp.status # 200
    THEN Returned(JNull, "Error: API call failed with status code", << >>)
    ELSE IF ~resp.path
    THEN Returned(JNull, "Error: Unexpected API response format.", << >>)
    ELSE IF ~Decodable(StripFences(resp.text))
    THEN Returned(JNull, "Error: Failed to decode JSON response from API.",
                  <<Shown("error", "Failed to decode JSON")>>)
    ELSE Returned(loads(StripFences(resp.text)), None, << >>)

----------------------------------------------------------------------------
(* format_for_st_link_analysis *)

\* "for x in value" over a decoded JSON value: the items, when it can be
\* iterated without an exception and every item is a dict
Iterable(j) == IsList(j) \/ (IsObj(j) /\ DOMAIN j.v = {})
Items(j) == IF IsList(j) THEN j.v ELSE << >>

\* as Skipped, without the test for a name seen before
Skipped_NoSeenTest(node_name, node_name_to_id) == ~TruthyStr(node_name)

\* line 139
Skipped(node_name, node_name_to_id) ==
    ~TruthyStr(node_name) \/ node_name \in DOMAIN node_name_to_id

\* as NodeData, without the upper() of line 146
NodeData_NoUpper(node, node_name, current_id) ==
    LET label == Get(node, "label", "ENTITY")
        node_data == [id |-> current_id, label |-> label, name |-> node_name]
    IN  IF label = "PERSON"
        THEN SetItem(node_data, "personality", Get(node, "personality", ""))
        ELSE node_data

\* lines 144-152
NodeData(node, node_name, current_id) ==
    LET label == upper(Get(node, "label", "ENTITY"))
        node_data == [id |-> current_id, label |-> label, name |-> node_name]
    IN  IF label = "PERSON"
        THEN SetItem(node_data, "personality", Get(node, "personality", ""))
        ELSE node_data

\* lines 131-134
NodesStart ==
    [elements_nodes |-> << >>, node_name_to_id |-> NoDict,
     node_id_counter |-> 1, raised |-> FALSE]

\* lines 138-155: one pass of the node loop
NodeStep(acc, node) ==
    LET node_name == Get(node, "name", None)
    IN  IF acc.raised \/ Skipped(node_name, acc.node_name_to_id)
        THEN acc
        ELSE IF Get(node, "label", "ENTITY") = None
        THEN [acc EXCEPT !.raised = TRUE]
        ELSE [elements_nodes |->
                  Append(acc.elements_nodes,
                         [data |-> NodeData(node, node_name, acc.node_id_counter)]),
              node_name_to_id |->
                  SetItem(acc.node_name_to_id, node_name, acc.node_id_counter),
              node_id_counter |-> acc.node_id_counter + 1,
              raised |-> FALSE]

RECURSIVE NodeLoop(_, _, _)
NodeLoop(nodes, k, acc) ==
    IF k > Len(nodes) THEN acc ELSE NodeLoop(nodes, k + 1, NodeStep(acc, nodes[k]))

\* line 176
EdgeAccepted(source_name, target_name, node_name_to_id) ==
    source_name \in DOMAIN node_name_to_id /\ target_name \in DOMAIN node_name_to_id

\* lines 167-168
EdgesStart ==
    [elements_edges |-> << >>, all_edge_labels |-> {},
     edge_id_counter |-> 1, raised |-> FALSE]

\* the edge of lines 177-184 for ids already looked up
EdgeElement(acc, edge, source_id, target_id) ==
    [data |-> [id |-> <<"e", acc.edge_id_counter>>,
               label |-> upper(Get(edge, "label", "RELATED_TO")),
               source |-> source_id,
               target |-> target_id]]

\* as EdgeStep, with line 186 moved out of the test of line 176: a rejected
\* relationship takes an edge id
EdgeStep_IdPerRelationship(acc, edge, node_name_to_id) ==
    LET source_name == Get(edge, "source", None)
        target_name == Get(edge, "target", None)
    IN  IF acc.raised
        THEN acc
        ELSE IF Get(edge, "label", "RELATED_TO") = None
        THEN [acc EXCEPT !.raised = TRUE]
        ELSE IF EdgeAccepted(source_name, target_name, node_name_to_id)
        THEN [acc EXCEPT
                !.elements_edges =
                    Append(@, EdgeElement(acc, edge, node_name_to_id[source_name],
                                          node_name_to_id[target_name])),
                !.all_edge_labels = @ \cup {upper(Get(edge, "label", "RELATED_TO"))},
                !.edge_id_counter = @ + 1]
        ELSE [acc EXCEPT !.edge_id_counter = @ + 1]

\* as EdgeStep, with the ids read by dict.get(name, 0) and no test of line 176
EdgeStep_NoEndpointTest(acc, edge, node_name_to_id) ==
    LET source_name == Get(edge, "source", None)
        target_name == Get(edge, "target", None)
    IN  IF acc.raised
        THEN acc
        ELSE IF Get(edge, "label", "RELATED_TO") = None
        THEN [acc EXCEPT !.raised = TRUE]
        ELSE [acc EXCEPT
                !.elements_edges =
                    Append(@, EdgeElement(acc, edge, Get(node_name_to_id, source_name, 0),
                                          Get(node_name_to_id, target_name, 0))),
                !.all_edge_labels = @ \cup {upper(Get(edge, "label", "RELATED_TO"))},
                !.edge_id_counter = @ + 1]

\* lines 171-186: one pass of the edge loop
EdgeStep(acc, edge, node_name_to_id) ==
    LET source_name == Get(edge, "source", None)
        target_name == Get(edge, "target", None)
    IN  IF acc.raised
        THEN acc
        ELSE IF Get(edge, "label", "RELATED_TO") = None
        THEN [acc EXCEPT !.raised = TRUE]
        ELSE IF EdgeAccepted(source_name, target_name, node_name_to_id)
        THEN [elements_edges |->
                  Append(acc.elements_edges,
                         EdgeElement(acc, edge, node_name_to_id[source_name],
                                     node_name_to_id[target_name])),
              all_edge_labels |->
                  acc.all_edge_labels \cup {upper(Get(edge, "label", "RELATED_TO"))},
              edge_id_counter |-> acc.edge_id_counter + 1,
              raised |-> FALSE]
        ELSE acc

RECURSIVE EdgeLoop(_, _, _, _)
EdgeLoop(edges, k, acc, node_name_to_id) ==
    IF k > Len(edges) THEN acc
    ELSE EdgeLoop(edges, k + 1, EdgeStep(acc, edges[k], node_name_to_id),
                  node_name_to_id)

\* no graph: the function raised, or was not called
NoElements == [raised |-> TRUE, nodes |-> << >>, edges |-> << >>, edge_styles |-> {}]

\* lines 129-191
format_for_st_link_analysis(output) ==
    LET nodes_j == Get(output, "nodes", JList(<< >>))
        edges_j == Get(output, "edges", JList(<< >>))
        n == NodeLoop(Items(nodes_j), 1, NodesStart)
        e == EdgeLoop(Items(edges_j), 1, EdgesStart, n.node_name_to_id)
    IN  IF ~Iterable(nodes_j) \/ n.raised \/ ~Iterable(edges_j) \/ e.raised
        THEN NoElements
        ELSE [raised |-> FALSE, nodes |-> n.elements_nodes,
              edges |-> e.elements_edges, edge_styles |-> e.all_edge_labels]

----------------------------------------------------------------------------
(* What the oracle may answer at each step *)

Names == {"Alice", "Bob"}
Labels == {"PERSON", "person", "ORGANIZATION"}
Entities ==
    {[name |-> n, label |-> l] : n \in Names, l \in Labels}
    \cup {[name |-> "", label |-> "ORGANIZATION"]}
Relationships ==
    {[source |-> a, label |-> "met", target |-> "Bob"] : a \in {"Alice", "Bob"}}

Step1Replies ==
    Failures \cup {Plain(JNull)}
    \cup {Plain(JList(s)) : s \in SeqsUpTo(Entities, MaxEntities)}

Step2Replies ==
    Failures \cup {Plain(JNull), Plain(JObj(NoDict)),
                   Plain(JObj([personality |-> "kind"])),
                   Fenced(JObj([personality |-> "kind"]))}

Step3Replies ==
    Failures \cup {Plain(JNull)}
    \cup {Plain(JList(s)) : s \in SeqsUpTo(Relationships, MaxRelationships)}

Step4Replies ==
    Failures \cup {Plain(JNull),
                   Plain(JObj([correctness_score |-> 8, completeness_score |-> 7])),
                   Fenced(JObj([correctness_score |-> 8, completeness_score |-> 7])),
                   Plain(JObj([correctness_score |-> 8]))}

----------------------------------------------------------------------------
(* The script run, lines 197-267 *)

NoResponse == [sent |-> FALSE]
NotReturned == [done |-> FALSE]
NotProjected == [made |-> FALSE, nodes |-> << >>, edges |-> << >>]

Init ==
    /\ API_KEY \in {"", "key"}
    /\ pc = "start"
    /\ nodes_list = JNull
    /\ idx = 1
    /\ final_nodes = << >>
    /\ final_edges = JList(<< >>)
    /\ llm_json_output = NoDict
    /\ metrics = << >>
    /\ elements = NotProjected
    /\ msgs = << >>
    /\ calls = << >>
    /\ response = NoResponse
    /\ returned = NotReturned

\* as Issue, with a first attempt that failed and is tried again
Issue_Retry(step, at) ==
    calls \o <<[step |-> step, at |-> at, outcome |-> "err"],
               [step |-> step, at |-> at, outcome |-> "pending"]>>

\* requests.post is entered (line 22)
Issue(step, at) == Append(calls, [step |-> step, at |-> at, outcome |-> "pending"])

\* call_gemini returns (lines 24, 35, 38, 41, 43)
Settle(r) ==
    [calls EXCEPT ![Len(calls)].outcome = IF TruthyStr(r.error) THEN "err" ELSE "ok"]

\* lines 198-203
Start ==
    /\ pc = "start"
    /\ IF ~TruthyStr(API_KEY)
       THEN /\ msgs' = Append(msgs, Shown("error", "Please add your GEMINI_API_KEY"))
            /\ pc' = "no_key"
       ELSE /\ msgs' = msgs
            /\ pc' = "step1"
    /\ UNCHANGED <<response, returned, API_KEY, nodes_list, idx, final_nodes, final_edges,
                   llm_json_output, metrics, elements, calls>>

\* lines 206-208, up to the request
Step1Call ==
    /\ pc = "step1"
    /\ calls' = Issue(1, 0)
    /\ pc' = "step1_wait"
    /\ UNCHANGED <<response, returned, API_KEY, nodes_list, idx, final_nodes, final_edges,
                   llm_json_output, metrics, elements, msgs>>

\* as AfterStep1, with the error of line 209 not stopping the run
AfterStep1_ErrorGoesOn(r) ==
    IF ~TruthyStr(r.error) /\ ~TruthyJ(r.parsed) THEN "stopped" ELSE "step2"

\* as AfterStep1, without the test of line 212
AfterStep1_NoEmptyTest(r) ==
    IF TruthyStr(r.error) THEN "stopped" ELSE "step2"

\* lines 209-214: where the run goes after the step-1 call
AfterStep1(r) ==
    IF TruthyStr(r.error) THEN "stopped"
    ELSE IF ~TruthyJ(r.parsed) THEN "stopped"
    ELSE "step2"

\* lines 209-214: what the user is shown after the step-1 call
ShownAfterStep1(r) ==
    IF TruthyStr(r.error) THEN <<Shown("error", "Error in Step 1")>>
    ELSE IF ~TruthyJ(r.parsed) THEN <<Shown("warning", "No entities found in the document.")>>
    ELSE << >>

\* lines 208-214
Step1Return ==
    /\ pc = "step1_wait"
    /\ \E resp \in Step1Replies :
          LET r == call_gemini(resp)
          IN  /\ calls' = Settle(r)
              /\ nodes_list' = r.parsed
              /\ msgs' = msgs \o r.shown \o ShownAfterStep1(r)
              /\ pc' = AfterStep1(r)
    /\ UNCHANGED <<response, returned, API_KEY, idx, final_nodes, final_edges, llm_json_output,
                   metrics, elements>>

\* an exception nothing catches ends the run; Streamlit shows it
Raise(what) == Append(msgs, Shown("exception", what))

\* line 219
IsPerson(node) == Get(node, "label", None) = "PERSON"

\* lines 218-220 for a PERSON entity, up to the request
Step2Call ==
    /\ pc = "step2"
    /\ idx <= Len(Items(nodes_list))
    /\ IsPerson(nodes_list.v[idx])
    /\ IF "name" \in DOMAIN nodes_list.v[idx]
       THEN /\ calls' = Issue(2, idx)
            /\ pc' = "step2_wait"
            /\ msgs' = msgs
       ELSE /\ calls' = calls
            /\ pc' = "crashed"
            /\ msgs' = Raise("KeyError")
    /\ UNCHANGED <<response, returned, API_KEY, nodes_list, idx, final_nodes, final_edges,
                   llm_json_output, metrics, elements>>

\* line 222: the value stored under "personality"
PersonalityOf(r) ==
    IF TruthyStr(r.error) THEN "" ELSE Get(r.parsed.v, "personality", "")

\* as AfterStep2, with a failed call stopping the run as in step 1
AfterStep2_ErrorStops(r) ==
    IF TruthyStr(r.error) THEN "stopped"
    ELSE IF IsObj(r.parsed) THEN "step2"
    ELSE "crashed"

\* line 222: where the run goes after a personality call
AfterStep2(r) ==
    IF TruthyStr(r.error) THEN "step2"
    ELSE IF IsObj(r.parsed) THEN "step2"
    ELSE "crashed"

\* lines 221-223
Step2Return ==
    /\ pc = "step2_wait"
    /\ \E resp \in Step2Replies :
          LET r == call_gemini(resp)
              node == nodes_list.v[idx]
          IN  /\ calls' = Settle(r)
              /\ pc' = AfterStep2(r)
              /\ IF AfterStep2(r) = "step2"
                 THEN LET enriched == SetItem(node, "personality", PersonalityOf(r))
                      IN  /\ nodes_list' = JList([nodes_list.v EXCEPT ![idx] = enriched])
                          /\ final_nodes' = Append(final_nodes, enriched)
                          /\ idx' = idx + 1
                          /\ msgs' = msgs \o r.shown
                 ELSE /\ msgs' = Raise("AttributeError")
                      /\ UNCHANGED <<nodes_list, final_nodes, idx>>
    /\ UNCHANGED <<response, returned, API_KEY, final_edges, llm_json_output, metrics, elements>>

\* lines 218-219, 223 for an entity that is no PERSON
Step2Skip ==
    /\ pc = "step2"
    /\ idx <= Len(Items(nodes_list))
    /\ ~IsPerson(nodes_list.v[idx])
    /\ final_nodes' = Append(final_nodes, nodes_list.v[idx])
    /\ idx' = idx + 1
    /\ UNCHANGED <<response, returned, API_KEY, pc, nodes_list, final_edges, llm_json_output,
                   metrics, elements, msgs, calls>>

\* as Step3Call, not waiting for the step-2 loop to be over
Step3Call_Early ==
    /\ pc = "step2"
    /\ pc' = "step3_wait"
    /\ calls' = Issue(3, 0)
    /\ UNCHANGED <<response, returned, API_KEY, nodes_list, idx, final_nodes, final_edges,
                   llm_json_output, metrics, elements, msgs>>

\* lines 226-229, up to the request, once the step-2 loop is over
Step3Call ==
    /\ pc = "step2"
    /\ idx > Len(Items(nodes_list))
    /\ IF ~Iterable(nodes_list)
       THEN /\ pc' = "crashed"
            /\ msgs' = Raise("TypeError")
            /\ calls' = calls
       ELSE IF \E k \in 1..Len(final_nodes) : "name" \notin DOMAIN final_nodes[k]
       THEN /\ pc' = "crashed"
            /\ msgs' = Raise("KeyError")
            /\ calls' = calls
       ELSE /\ pc' = "step3_wait"
            /\ msgs' = msgs
            /\ calls' = Issue(3, 0)
    /\ UNCHANGED <<response, returned, API_KEY, nodes_list, idx, final_nodes, final_edges,
                   llm_json_output, metrics, elements>>

\* as EdgesAfterStep3, without the reset of line 232
EdgesAfterStep3_NoReset(r) == r.parsed

\* lines 230-232: the relationship list kept after the step-3 call
EdgesAfterStep3(r) == IF TruthyStr(r.error) THEN JList(<< >>) ELSE r.parsed

\* lines 230-231: what the user is shown after the step-3 call
ShownAfterStep3(r) ==
    IF TruthyStr(r.error) THEN <<Shown("error", "Error in Step 3")>> ELSE << >>

\* lines 229-235
Step3Return ==
    /\ pc = "step3_wait"
    /\ \E resp \in Step3Replies :
          LET r == call_gemini(resp)
          IN  /\ calls' = Settle(r)
              /\ final_edges' = EdgesAfterStep3(r)
              /\ msgs' = msgs \o r.shown \o ShownAfterStep3(r)
              /\ llm_json_output' =
                     [nodes |-> JList(final_nodes), edges |-> EdgesAfterStep3(r)]
    /\ pc' = "step4"
    /\ UNCHANGED <<response, returned, API_KEY, nodes_list, idx, final_nodes, metrics, elements>>

\* lines 240-244, up to the request
Step4Call ==
    /\ pc = "step4"
    /\ calls' = Issue(4, 0)
    /\ pc' = "step4_wait"
    /\ UNCHANGED <<response, returned, API_KEY, nodes_list, idx, final_nodes, final_edges,
                   llm_json_output, metrics, elements, msgs>>

\* lines 247-256: where the run goes after the step-4 call
AfterStep4(r) ==
    IF TruthyStr(r.error) THEN "render"
    ELSE IF IsObj(r.parsed) THEN "render"
    ELSE "crashed"

\* lines 251-256
Scores(r) ==
    <<[label |-> "Correctness Score", value |-> Get(r.parsed.v, "correctness_score", 0)],
      [label |-> "Completeness Score", value |-> Get(r.parsed.v, "completeness_score", 0)]>>

\* lines 244-256
Step4Return ==
    /\ pc = "step4_wait"
    /\ \E resp \in Step4Replies :
          LET r == call_gemini(resp)
          IN  /\ calls' = Settle(r)
              /\ pc' = AfterStep4(r)
              /\ IF TruthyStr(r.error)
                 THEN /\ msgs' = msgs \o r.shown
                                 \o <<Shown("warning", "The evaluation step failed.")>>
                      /\ metrics' = metrics
                 ELSE IF IsObj(r.parsed)
                 THEN /\ msgs' = msgs
                      /\ metrics' = Scores(r)
                 ELSE /\ msgs' = Raise("AttributeError")
                      /\ metrics' = metrics
    /\ UNCHANGED <<response, returned, API_KEY, nodes_list, idx, final_nodes, final_edges,
                   llm_json_output, elements>>

\* lines 261-265: the projection, the success line and the widget, which is
\* handed the elements and is not modelled further
Render ==
    /\ pc = "render"
    /\ LET made == format_for_st_link_analysis(llm_json_output)
       IN  IF made.raised
           THEN /\ pc' = "crashed"
                /\ msgs' = Raise("format_for_st_link_analysis")
                /\ elements' = elements
           ELSE /\ pc' = "done"
                /\ elements' = [made |-> TRUE, nodes |-> made.nodes, edges |-> made.edges]
                /\ msgs' = Append(msgs, Shown("success", "Graph generation complete!"))
    /\ UNCHANGED <<response, returned, API_KEY, nodes_list, idx, final_nodes, final_edges,
                   llm_json_output, metrics, calls>>

Next ==
    \/ Start
    \/ Step1Call
    \/ Step1Return
    \/ Step2Call
    \/ Step2Return
    \/ Step2Skip
    \/ Step3Call
    \/ Step3Return
    \/ Step4Call
    \/ Step4Return
    \/ Render

Spec == Init /\ [][Next]_vars

----------------------------------------------------------------------------
(* format_for_st_link_analysis on its own: any dict of nodes and edges *)

GivenNodes ==
    {[name |-> "Alice", label |-> "PERSON"],
     [name |-> "Alice", label |-> "person", personality |-> "kind"],
     [name |-> "Bob"],
     [name |-> "", label |-> "PERSON"],
     [label |-> "ORGANIZATION"],
     [name |-> None, label |-> "CONCEPT"],
     [name |-> "Bob", label |-> None]}

GivenEdges ==
    {[source |-> "Alice", label |-> "met", target |-> "Bob"],
     [source |-> "Bob", target |-> "Alice"],
     [source |-> "Alice", label |-> "works_at"],
     [source |-> "Bob", label |-> None, target |-> "Bob"]}

GivenNodeLists == {JNull} \cup {JList(s) : s \in SeqsUpTo(GivenNodes, MaxNodes)}
GivenEdgeLists == {JNull} \cup {JList(s) : s \in SeqsUpTo(GivenEdges, MaxEdges)}

\* the argument: a dict with the keys "nodes" and "edges", or with one of them
GivenOutput(output) ==
    \/ \E n \in GivenNodeLists, e \in GivenEdgeLists : output = [nodes |-> n, edges |-> e]
    \/ \E n \in GivenNodeLists : output = [nodes |-> n]
    \/ \E e \in GivenEdgeLists : output = [edges |-> e]

ProjInit ==
    /\ API_KEY = "key"
    /\ pc = "render"
    /\ nodes_list = JNull
    /\ idx = 1
    /\ final_nodes = << >>
    /\ final_edges = JList(<< >>)
    /\ GivenOutput(llm_json_output)
    /\ metrics = << >>
    /\ elements = NotProjected
    /\ msgs = << >>
    /\ calls = << >>
    /\ response = NoResponse
    /\ returned = NotReturned

ProjNext == Render

ProjSpec == ProjInit /\ [][ProjNext]_vars

----------------------------------------------------------------------------
(* call_gemini on its own: any response of requests.post *)

MaxText == 5

GivenDocs == {JNull, JObj([personality |-> "kind"])}

Tokens == {FenceTag, Fence, Ws, Junk} \cup {Doc(j) : j \in GivenDocs}

\* No response at all, or a status with a body that has the text or lacks it
GivenResponse(r) ==
    \/ r = TransportFailure
    \/ \E status \in {200, 500} :
           \/ r = Response(TRUE, status, FALSE, << >>)
           \/ \E text \in SeqsUpTo(Tokens, MaxText) :
                  r = Response(TRUE, status, TRUE, text)

CallInit ==
    /\ API_KEY = "key"
    /\ pc = "call"
    /\ nodes_list = JNull
    /\ idx = 1
    /\ final_nodes = << >>
    /\ final_edges = JList(<< >>)
    /\ llm_json_output = NoDict
    /\ metrics = << >>
    /\ elements = NotProjected
    /\ msgs = << >>
    /\ calls = << >>
    /\ GivenResponse(response)
    /\ returned = NotReturned

\* lines 21-43, from the response to the pair handed back
Call ==
    /\ pc = "call"
    /\ LET r == call_gemini(response)
       IN  /\ returned' = [done |-> TRUE, parsed |-> r.parsed, error |-> r.error]
           /\ msgs' = msgs \o r.shown
    /\ pc' = "returned"
    /\ UNCHANGED <<response, API_KEY, nodes_list, idx, final_nodes, final_edges,
                   llm_json_output, metrics, elements, calls>>

CallNext == Call

CallSpec == CallInit /\ [][CallNext]_vars

----------------------------------------------------------------------------
(* Properties *)

HasShown(level, about) ==
    \E k \in 1..Len(msgs) : msgs[k] = Shown(level, about)

HasLevel(level) == \E k \in 1..Len(msgs) : msgs[k].level = level

Step1Failed == Len(calls) >= 1 /\ calls[1].outcome = "err"

\* C1: once the step-1 call has returned an error the run is stopped with
\* that error shown: the step-1 call stays the only call ever issued, and
\* no graph is projected or rendered.
C1_Step1ErrorAborts ==
    Step1Failed =>
        /\ pc = "stopped"
        /\ Len(calls) = 1
        /\ HasShown("error", "Error in Step 1")
        /\ ~elements.made
        /\ ~HasLevel("success")

C1_Witness == Step1Failed /\ pc = "stopped"

Step1Empty ==
    Len(calls) >= 1 /\ calls[1].outcome = "ok" /\ nodes_list = JList(<< >>)

\* C2: once the step-1 call has returned an empty list without error the run
\* is stopped: the step-1 call stays the only call, the one thing shown is
\* the "no entities found" warning (nothing at error level), and no graph is
\* projected or rendered.
C2_EmptyListStops ==
    Step1Empty =>
        /\ pc = "stopped"
        /\ Len(calls) = 1
        /\ msgs = <<Shown("warning", "No entities found in the document.")>>
        /\ ~elements.made

C2_Witness == Step1Empty /\ pc = "stopped"

NamesOf(nodes) == [k \in 1..Len(nodes) |-> Get(nodes[k], "name", None)]

CallsOf(step) == {k \in 1..Len(calls) : calls[k].step = step}

Step2Begun == pc \notin {"start", "no_key", "step1", "step1_wait", "stopped"}

\* a step of the run in which the pending personality call returns an error
PersonalityCallFails ==
    /\ pc = "step2_wait"
    /\ Len(calls') = Len(calls)
    /\ calls'[Len(calls)].outcome = "err"

\* C3: a personality call that returns an error never ends the run: the
\* entity is appended with personality "" and the loop moves to the next
\* entity.  The names of final_nodes are at every moment the names of the
\* step-1 list up to the loop position, so once step 3 is issued final_nodes
\* has the length and the order of names of the step-1 list, whatever the
\* labels and whatever each personality call returned.
C3_FailedPersonalityAbsorbed ==
    /\ [](Step2Begun =>
            /\ IsList(nodes_list)
            /\ idx - 1 <= Len(nodes_list.v)
            /\ NamesOf(final_nodes) = NamesOf(SubSeq(nodes_list.v, 1, idx - 1))
            /\ (CallsOf(3) # {} => Len(final_nodes) = Len(nodes_list.v)))
    /\ [][/\ Step2Begun => NamesOf(nodes_list'.v) = NamesOf(nodes_list.v)
          /\ PersonalityCallFails =>
                /\ pc' = "step2"
                /\ idx' = idx + 1
                /\ Len(final_nodes') = Len(final_nodes) + 1
                /\ final_nodes'[idx].personality = ""
                /\ final_nodes'[idx].name = nodes_list.v[idx].name]_vars

C3_Witness ==
    /\ CallsOf(3) # {}
    /\ \E k \in CallsOf(2) : calls[k].outcome = "err" /\ calls[k].at = 2
    /\ Len(final_nodes) = 2
    /\ final_nodes[1].label = "ORGANIZATION"
    /\ final_nodes[2].personality = ""

Step3Failed == \E k \in CallsOf(3) : calls[k].outcome = "err"

AboutStep3(k) == msgs[k].about = "Error in Step 3"

\* what a failed step-3 call leaves apart from the message: the run is not
\* stopped, the relationship list is empty, the next call issued is the
\* step-4 call, and a projected graph has one node per distinct non-empty
\* entity name and no edge
Step3FailureAbsorbed ==
    /\ pc # "stopped"
    /\ final_edges = JList(<< >>)
    /\ \A k \in CallsOf(3) : k < Len(calls) => calls[k + 1].step = 4
    /\ pc \in {"render", "done"} => CallsOf(4) # {}
    /\ elements.made =>
          /\ Len(elements.edges) = 0
          /\ {elements.nodes[k].data.name : k \in 1..Len(elements.nodes)}
                = {final_nodes[k].name : k \in 1..Len(final_nodes)} \ {""}
          /\ Len(elements.nodes)
                = Cardinality({final_nodes[k].name : k \in 1..Len(final_nodes)} \ {""})

\* C4 as stated: the failure of the step-3 call is absorbed and shown to the
\* user as a warning.
C4_Step3FailureWarned ==
    Step3Failed =>
        /\ Step3FailureAbsorbed
        /\ \E k \in 1..Len(msgs) : AboutStep3(k) /\ msgs[k].level = "warning"

\* C4, amended: the failure of the step-3 call is absorbed and shown to the
\* user by st.error, at error level: no warning is shown for it.
C4_Step3FailureShownAsError ==
    Step3Failed =>
        /\ Step3FailureAbsorbed
        /\ \E k \in 1..Len(msgs) : AboutStep3(k)
        /\ \A k \in 1..Len(msgs) : AboutStep3(k) => msgs[k].level = "error"

C4_Witness ==
    /\ Step3Failed
    /\ pc = "done"
    /\ Len(elements.nodes) = 2
    /\ Len(elements.edges) = 0
    /\ HasShown("error", "Error in Step 3")

Step1GaveEntities ==
    Len(calls) >= 1 /\ calls[1].outcome = "ok" /\ TruthyJ(nodes_list)

\* C5: a run whose step-1 call returned a non-empty entity list never ends
\* anywhere but at the end of the script, whatever the later calls return:
\* it is neither stopped nor ended by an exception, step 4 is called before
\* the projection, the graph projected is the graph assembled at line 235,
\* and a failed step-4 call only leaves the scores out.
C5_NonEmptyRunReachesDone ==
    Step1GaveEntities =>
        /\ pc \notin {"stopped", "crashed"}
        /\ pc \in {"render", "done"} => CallsOf(4) # {}
        /\ pc = "done" =>
              /\ llm_json_output = [nodes |-> JList(final_nodes), edges |-> final_edges]
              /\ elements.made
        /\ (\E k \in CallsOf(4) : calls[k].outcome = "err") => metrics = << >>

PersonPositions ==
    IF IsList(nodes_list)
    THEN {k \in 1..Len(nodes_list.v) : Get(nodes_list.v[k], "label", None) = "PERSON"}
    ELSE {}

\* C6: no call is issued twice: steps 1, 3 and 4 issue at most one call each,
\* step 2 issues at most one call per position of the step-1 list and only
\* for entities labelled PERSON, so with n such entities a run issues at most
\* n + 3 calls, and exactly n + 3 (one per step and one per PERSON entity)
\* when it reaches the end of the script.
C6_NoRetries ==
    /\ \A j, k \in 1..Len(calls) :
          (calls[j].step = calls[k].step /\ calls[j].at = calls[k].at) => j = k
    /\ \A k \in CallsOf(1) \cup CallsOf(3) \cup CallsOf(4) : calls[k].at = 0
    /\ \A k \in CallsOf(2) : calls[k].at \in PersonPositions
    /\ Len(calls) <= Cardinality(PersonPositions) + 3
    /\ pc = "done" =>
          /\ Len(calls) = Cardinality(PersonPositions) + 3
          /\ {calls[k].at : k \in CallsOf(2)} = PersonPositions
          /\ \A step \in {1, 3, 4} : CallsOf(step) # {}

C6_Witness ==
    /\ pc = "done"
    /\ Cardinality(PersonPositions) = 2
    /\ \E k \in CallsOf(2) : calls[k].outcome = "err"
    /\ \E k \in CallsOf(3) : calls[k].outcome = "err"
    /\ Len(calls) = 5

Waiting == pc \in {"step1_wait", "step2_wait", "step3_wait", "step4_wait"}

\* C7: at most one call is outstanding, and it is the last one issued: a
\* call is issued only when every earlier call has returned.  The calls are
\* issued in the order step 1, step 2 for the PERSON entities by increasing
\* position in the step-1 list, step 3, step 4; step 3 is issued only after
\* a step-2 call for every PERSON entity, and step 4 only after step 3.
C7_SequentialOrdered ==
    /\ \A k \in 1..Len(calls) : calls[k].outcome = "pending" => (k = Len(calls) /\ Waiting)
    /\ Waiting => (Len(calls) > 0 /\ calls[Len(calls)].outcome = "pending")
    /\ Len(calls) > 0 => calls[1].step = 1
    /\ \A j, k \in 1..Len(calls) :
          j < k => /\ calls[j].step <= calls[k].step
                   /\ calls[j].step = 2 /\ calls[k].step = 2 => calls[j].at < calls[k].at
    /\ \A k \in CallsOf(3) :
          \A p \in PersonPositions : \E j \in CallsOf(2) : j < k /\ calls[j].at = p
    /\ CallsOf(4) # {} => CallsOf(3) # {}

C7_Witness ==
    /\ pc = "step4_wait"
    /\ Len(calls) = 5
    /\ calls[2].at = 1 /\ calls[3].at = 2
    /\ calls[5].outcome = "pending"

\* the lists format_for_st_link_analysis is given
GivenNodeList == Items(Get(llm_json_output, "nodes", JList(<< >>)))
GivenEdgeList == Items(Get(llm_json_output, "edges", JList(<< >>)))

NameAt(k) == Get(GivenNodeList[k], "name", None)

\* positions of the first occurrences of the non-empty names
FirstOccurrences ==
    {k \in 1..Len(GivenNodeList) :
        /\ NameAt(k) \notin {None, ""}
        /\ \A j \in 1..(k - 1) : NameAt(j) # NameAt(k)}

\* number of positions of S before k
Rank(S, k) == Cardinality({j \in S : j < k})

\* C8: the nodes emitted are the first occurrences of the non-empty names of
\* the given list, in the order of the list; later duplicates and empty
\* names are dropped and take no id: the i-th node emitted has id i, and no
\* two nodes have the same name.
C8_NodesAreFirstOccurrences ==
    elements.made =>
        /\ Len(elements.nodes) = Cardinality(FirstOccurrences)
        /\ \A i \in 1..Len(elements.nodes) :
              /\ elements.nodes[i].data.id = i
              /\ \E k \in FirstOccurrences :
                    /\ Rank(FirstOccurrences, k) = i - 1
                    /\ elements.nodes[i].data.name = NameAt(k)
        /\ \A i, j \in 1..Len(elements.nodes) :
              elements.nodes[i].data.name = elements.nodes[j].data.name => i = j

C8_Witness ==
    /\ elements.made
    /\ Len(GivenNodeList) = 3
    /\ NameAt(1) = "Alice" /\ NameAt(2) = "Alice" /\ NameAt(3) = "Bob"
    /\ Len(elements.nodes) = 2
    /\ elements.nodes[2].data.id = 2
    /\ elements.nodes[2].data.name = "Bob"

EmittedNames == {elements.nodes[i].data.name : i \in 1..Len(elements.nodes)}

\* positions of the relationships whose two ends are names of emitted nodes
Resolved ==
    {k \in 1..Len(GivenEdgeList) :
        /\ Get(GivenEdgeList[k], "source", None) \in EmittedNames
        /\ Get(GivenEdgeList[k], "target", None) \in EmittedNames}

\* C9: the edges emitted are the relationships both of whose ends are names
\* of emitted nodes, in the order of the given list; every other relationship
\* is left out and takes no edge id: the i-th edge emitted has id "e" i and
\* joins the ids of the nodes its relationship names.
C9_EdgesAreResolvedGapFree ==
    elements.made =>
        /\ Len(elements.edges) = Cardinality(Resolved)
        /\ \A i \in 1..Len(elements.edges) :
              /\ elements.edges[i].data.id = <<"e", i>>
              /\ \E k \in Resolved :
                    /\ Rank(Resolved, k) = i - 1
                    /\ elements.nodes[elements.edges[i].data.source].data.name
                          = GivenEdgeList[k].source
                    /\ elements.nodes[elements.edges[i].data.target].data.name
                          = GivenEdgeList[k].target

C9_Witness ==
    /\ elements.made
    /\ Len(GivenEdgeList) = 2
    /\ Resolved = {2}
    /\ Len(elements.edges) = 1
    /\ elements.edges[1].data.id = <<"e", 1>>

NodeIds == {elements.nodes[i].data.id : i \in 1..Len(elements.nodes)}

\* C10: in the graph projected by a run both ends of every edge are ids of
\* nodes of that graph, and there are no more edges than relationships in
\* the list kept from the step-3 call.
C10_EdgesJoinNodes ==
    elements.made =>
        /\ \A i \in 1..Len(elements.edges) :
              /\ elements.edges[i].data.source \in NodeIds
              /\ elements.edges[i].data.target \in NodeIds
        /\ Len(elements.edges) <= Len(Items(final_edges))

C10_Witness ==
    /\ pc = "done"
    /\ Len(Items(final_edges)) = 2
    /\ Len(elements.edges) = 1
    /\ Len(elements.nodes) = 1

\* C11: format_for_st_link_analysis returns a graph for every dict it is
\* given, whichever of the name, label, personality, source and target
\* fields or of the nodes and edges lists is missing or null: it never
\* raises, and every node and edge it returns carries a label.
C11_ProjectionNeverFails ==
    pc # "render" =>
        /\ pc = "done"
        /\ elements.made
        /\ \A i \in 1..Len(elements.nodes) : elements.nodes[i].data.label # None
        /\ \A i \in 1..Len(elements.edges) : elements.edges[i].data.label # None

Wrapped(text) == SubSeq(text, 2, Len(text) - 1)

IsWrapped(text) ==
    Len(text) >= 2 /\ Head(text) = FenceTag /\ text[Len(text)] = Fence

\* C13: a JSON payload wrapped in a leading fence tag and a closing fence is
\* returned as the value the payload alone decodes to, and a text that is a
\* JSON payload as it stands is left as it is by the fence stripping and
\* returned as its value; neither returns an error.
C13_FenceStrippingLossless ==
    (pc = "returned" /\ response.sent /\ response.status = 200 /\ response.path) =>
        /\ (IsWrapped(response.text) /\ Decodable(Wrapped(response.text))) =>
              /\ returned.error = None
              /\ returned.parsed = loads(Wrapped(response.text))
        /\ Decodable(response.text) =>
              /\ StripFences(response.text) = response.text
              /\ returned.error = None
              /\ returned.parsed = loads(response.text)

C13_Witness ==
    /\ pc = "returned"
    /\ response = Fenced(JObj([personality |-> "kind"]))
    /\ returned.parsed = JObj([personality |-> "kind"])
    /\ returned.error = None

\* labels written in upper case only
UpperCased == {"PERSON", "ORGANIZATION", "ENTITY", "CONCEPT"}

\* a label with its letters in lower case
lower(s) ==
    CASE s \in {"PERSON", "Person"} -> "person"
      [] s = "ORGANIZATION" -> "organization"
      [] s = "ENTITY" -> "entity"
      [] s = "CONCEPT" -> "concept"
      [] OTHER -> s

\* C14: every node emitted carries the label of the entity it was made from
\* in upper case ("person" gives "PERSON"), "ENTITY" when the entity has no
\* label, and it has a personality field exactly when that label is "PERSON".
C14_LabelsNormalized ==
    elements.made =>
        \A i \in 1..Len(elements.nodes) :
            \E k \in FirstOccurrences :
                LET given == Get(GivenNodeList[k], "label", "ENTITY")
                    data == elements.nodes[i].data
                IN  /\ Rank(FirstOccurrences, k) = i - 1
                    /\ data.label \in UpperCased
                    /\ lower(data.label) = lower(given)
                    /\ ("personality" \in DOMAIN data) <=> (data.label = "PERSON")

C14_Witness ==
    /\ elements.made
    /\ GivenNodeList = <<[name |-> "Alice", label |-> "person", personality |-> "kind"],
                         [name |-> "Bob"]>>
    /\ elements.nodes[1].data.label = "PERSON"
    /\ elements.nodes[1].data.personality = "kind"
    /\ elements.nodes[2].data.label = "ENTITY"
    /\ "personality" \notin DOMAIN elements.nodes[2].data

\* C15: a step in which a personality call returns an error, whatever the
\* failure (no response, a status other than 200, a body without the text,
\* a text that is not JSON), shows nothing to the user: the messages are as
\* they were, and the entity is appended with personality "".
C15_PersonalityFailureSilent ==
    [][PersonalityCallFails =>
          /\ msgs' = msgs
          /\ final_nodes'[idx].personality = ""]_vars

DocumentNodes == Items(Get(llm_json_output, "nodes", JNull))
DocumentEdges == Items(Get(llm_json_output, "edges", JNull))

\* C16, as stated: the graph assembled at line 235 has no two entities with
\* the same name, and the source and the target of every relationship of it
\* are names of entities of it.
C16_DocumentGraphDeduplicated ==
    llm_json_output # NoDict =>
        /\ \A i, j \in 1..Len(DocumentNodes) :
              i # j => DocumentNodes[i].name # DocumentNodes[j].name
        /\ \A k \in 1..Len(DocumentEdges) :
              /\ DocumentEdges[k].source \in {DocumentNodes[i].name : i \in 1..Len(DocumentNodes)}
              /\ DocumentEdges[k].target \in {DocumentNodes[i].name : i \in 1..Len(DocumentNodes)}

\* C16: the graph assembled at line 235 keeps every entity of the step-1 list
\* in order, repeated names included, and the relationship list as step 3
\* left it; it is the projection that suppresses: the graph projected has no
\* two nodes with the same name, its i-th node is made from the first entity
\* with the i-th distinct non-empty name, and both ends of each of its edges
\* are nodes of it.
C16_SuppressedInProjection ==
    llm_json_output # NoDict =>
        /\ NamesOf(DocumentNodes) = NamesOf(nodes_list.v)
        /\ llm_json_output.edges = final_edges
        /\ elements.made =>
              /\ \A i, j \in 1..Len(elements.nodes) :
                    i # j => elements.nodes[i].data.name # elements.nodes[j].data.name
              /\ \A i \in 1..Len(elements.nodes) :
                    \E k \in FirstOccurrences :
                        /\ Rank(FirstOccurrences, k) = i - 1
                        /\ elements.nodes[i].data.name = DocumentNodes[k].name
                        /\ lower(elements.nodes[i].data.label)
                              = lower(DocumentNodes[k].label)
              /\ \A i \in 1..Len(elements.edges) :
                    /\ elements.edges[i].data.source \in NodeIds
                    /\ elements.edges[i].data.target \in NodeIds

C16_Witness ==
    /\ pc = "done"
    /\ Len(DocumentNodes) = 2
    /\ DocumentNodes[1].name = "Alice" /\ DocumentNodes[1].label = "ORGANIZATION"
    /\ DocumentNodes[2].name = "Alice" /\ DocumentNodes[2].label = "PERSON"
    /\ Len(DocumentEdges) = 1
    /\ Len(elements.nodes) = 1
    /\ elements.nodes[1].data.label = "ORGANIZATION"
    /\ Len(elements.edges) = 0

\* C17: every score shown by step 4 is an integer from 1 to 10, whatever
\* object the step-4 call returned, an object without one of the two score
\* keys included.
C17_ScoresInRange ==
    \A k \in 1..Len(metrics) : metrics[k].value \in 1..10

\* C18: in the graph projected by a run a node has the label "PERSON" only
\* if exactly one personality call was issued for the entity it is made
\* from, and no personality call was issued for an entity whose node has
\* another label, in whatever letter case step 1 returned the labels.
C18_Step2AgreesWithProjection ==
    elements.made =>
        \A i \in 1..Len(elements.nodes) :
            \E k \in FirstOccurrences :
                /\ Rank(FirstOccurrences, k) = i - 1
                /\ elements.nodes[i].data.label = "PERSON"
                      => Cardinality({c \in CallsOf(2) : calls[c].at = k}) = 1
                /\ elements.nodes[i].data.label # "PERSON"
                      => {c \in CallsOf(2) : calls[c].at = k} = {}

\* C19: of the two values call_gemini returns exactly one is null: the error
\* is null exactly when the parsed value is not, also when the text of the
\* response is the JSON literal null.
C19_ExactlyOneNull ==
    pc = "returned" => (returned.error = None <=> returned.parsed # JNull)

====
